---- MODULE Spec2Model ----
(***************************************************************************)
(* Model of the image steganography package:                               *)
(*   steganography/dct_steganography.py  (JpegImage, StegJpegImage)        *)
(*   steganography/lsb_steganography.py  (PngImage, StegPngImage)          *)
(*   steganography/common_operations.py  (extract_parameters_from_metadata)*)
(*   steg.py                             (data_embedding, data_extraction) *)
(*                                                                         *)
(* Text (str) values are sequences of one-character strings, bit strings   *)
(* (bitarray) are sequences over {0, 1}, bytes are sequences over 0..255.  *)
(* Python objects that can be shared by reference (the exif dict, the      *)
(* image arrays) live in heaps and are referred to by their index.         *)
(***************************************************************************)
EXTENDS Integers, Sequences, FiniteSets, TLC

VARIABLES
    kind,        \* "jpeg" (DCT coefficients) or "png" (pixels): args.type_of_image
    heapImg,     \* heap of image objects (DCTJPEG planes / numpy pixel array)
    heapExif,    \* heap of exif dicts
    carrier,     \* the JpegImage / PngImage object
    stegos,      \* the StegJpegImage / StegPngImage objects created so far
    embedResult, \* outcome of the most recent embed_data call
    calls,       \* number of embed_data calls made so far
    pc,          \* position of the running extract() call: "idle" or "scan"
    ex,          \* locals and outcome of the most recent extract() call
    outFile,     \* the file data_extraction writes (args.output_extracted_data)
    args,        \* the arguments of the embed command: the data file, --watermark
    outImage,    \* the file data_embedding writes (args.output_image)
    det          \* the image under test and the result of the detector

vars == <<kind, heapImg, heapExif, carrier, stegos, embedResult, calls, pc, ex, outFile,
          args, outImage, det>>

----------------------------------------------------------------------------
(* Bounds of the model *)

MaxPayloadLen == 3   \* longest payload handed to embed_data, in bytes
MaxPattern    == 1   \* payloads follow the byte patterns 0..MaxPattern
MaxEmbeds     == 2   \* embed_data calls on the one carrier object
MaxSeed       == 1   \* coefficient planes are generated from seeds 0..MaxSeed
MaxPixSeed    == 0   \* pixel arrays are generated from seeds 0..MaxPixSeed
MaxMetaLen    == 4   \* longest free-form UserComment text, in characters
MaxMetaBits   == 33  \* largest payload_bit_length of a well-formed tampered record
MaxCoef       == 6   \* the bit masks are checked on every value in -MaxCoef..MaxCoef

(* Program constants *)

BlockSize == 8       \* DCT blocks are 8 x 8: range(8)
ColourChannels == 3  \* the pixel scans visit channels range(3)

Min(a, b) == IF a < b THEN a ELSE b
Max(a, b) == IF a > b THEN a ELSE b

----------------------------------------------------------------------------
(* Text: str.split, int(), f"{n}" *)

DigitChars == <<"0", "1", "2", "3", "4", "5", "6", "7", "8", "9">>

IsDigit(c) == \E d \in 1..10 : DigitChars[d] = c
DigitVal(c) == (CHOOSE d \in 1..10 : DigitChars[d] = c) - 1

\* f"{n}" for an int n
RECURSIVE DecStr(_)
DecStr(n) ==
    IF n < 0 THEN <<"-">> \o DecStr(0 - n)
    ELSE IF n < 10 THEN <<DigitChars[n + 1]>>
    ELSE DecStr(n \div 10) \o <<DigitChars[(n % 10) + 1]>>

\* str.split(sep): the fields between the occurrences of sep
RECURSIVE SplitFrom(_, _, _, _)
SplitFrom(s, sep, pos, field) ==
    IF pos > Len(s) THEN <<field>>
    ELSE IF s[pos] = sep THEN <<field>> \o SplitFrom(s, sep, pos + 1, <<>>)
    ELSE SplitFrom(s, sep, pos + 1, Append(field, s[pos]))

Split(s, sep) == SplitFrom(s, sep, 1, <<>>)

\* str.strip() of the whitespace int() ignores
RECURSIVE Strip(_)
Strip(s) ==
    IF s = <<>> THEN s
    ELSE IF Head(s) = " " THEN Strip(Tail(s))
    ELSE IF s[Len(s)] = " " THEN Strip(SubSeq(s, 1, Len(s) - 1))
    ELSE s

\* the digits of an int() literal: digits, single underscores between digits
DigitsOk(b) ==
    /\ Len(b) >= 1
    /\ IsDigit(b[1]) /\ IsDigit(b[Len(b)])
    /\ \A q \in 1..Len(b) : IsDigit(b[q]) \/ b[q] = "_"
    /\ \A q \in 1..(Len(b) - 1) : ~(b[q] = "_" /\ b[q + 1] = "_")

RECURSIVE DigitsVal(_, _)
DigitsVal(b, acc) ==
    IF b = <<>> THEN acc
    ELSE IF Head(b) = "_" THEN DigitsVal(Tail(b), acc)
    ELSE DigitsVal(Tail(b), acc * 10 + DigitVal(Head(b)))

\* int(s): [ok |-> FALSE] stands for ValueError
PyInt(s) ==
    LET t == Strip(s)
        signed == t # <<>> /\ (Head(t) = "+" \/ Head(t) = "-")
        body == IF signed THEN Tail(t) ELSE t
    IN IF DigitsOk(body)
       THEN [ok |-> TRUE,
             val |-> IF signed /\ Head(t) = "-" THEN 0 - DigitsVal(body, 0)
                     ELSE DigitsVal(body, 0)]
       ELSE [ok |-> FALSE, val |-> 0]

----------------------------------------------------------------------------
(* Bits: bitarray.frombytes, bitarray.tobytes, f"{v:08b}", int(s, 2) *)

\* the 8 bits of a byte, least significant first
BitsOfByte_LsbFirst(b) == [q \in 1..8 |-> (b \div (2 ^ (q - 1))) % 2]

\* the 8 bits of a byte, most significant first
BitsOfByte(b) == [q \in 1..8 |-> (b \div (2 ^ (8 - q))) % 2]

\* bitarray.frombytes(data) on an empty bitarray
RECURSIVE frombytes(_)
frombytes(data) ==
    IF data = <<>> THEN <<>> ELSE BitsOfByte(Head(data)) \o frombytes(Tail(data))

\* int(bits, 2)
RECURSIVE IntOfBits(_, _)
IntOfBits(bits, acc) ==
    IF bits = <<>> THEN acc ELSE IntOfBits(Tail(bits), acc * 2 + Head(bits))

\* str.ljust(width, '0')
RECURSIVE ljust(_, _)
ljust(bits, width) ==
    IF Len(bits) >= width THEN bits ELSE ljust(Append(bits, 0), width)

\* bitarray.tobytes(): whole bytes, the last one filled with zero bits
RECURSIVE tobytes(_)
tobytes(bits) ==
    IF bits = <<>> THEN <<>>
    ELSE IF Len(bits) <= 8 THEN <<IntOfBits(ljust(bits, 8), 0)>>
    ELSE <<IntOfBits(SubSeq(bits, 1, 8), 0)>> \o tobytes(SubSeq(bits, 9, Len(bits)))

\* f"{v:08b}": at least 8 binary digits
RECURSIVE BinDigits(_)
BinDigits(v) == IF v < 2 THEN <<v>> ELSE Append(BinDigits(v \div 2), v % 2)

RECURSIVE ZeroFill(_, _)
ZeroFill(bits, width) ==
    IF Len(bits) >= width THEN bits ELSE ZeroFill(<<0>> \o bits, width)

Format08b(v) == ZeroFill(BinDigits(v), 8)

\* seq[a:b] with 0 <= a <= b (Python clamps the bounds to the length)
Slice(seq, a, b) == SubSeq(seq, Min(a, Len(seq)) + 1, Min(b, Len(seq)))

----------------------------------------------------------------------------
(* common_operations.py *)

\* dict.get("Exif.Photo.UserComment"): the text, or None (present = FALSE)
ExifGet(exif) == [present |-> exif.has, text |-> exif.UserComment]

\* extract_parameters_from_metadata taking the end of the range as a member
extract_parameters_from_metadata_Inclusive(metadata, lo, hi) ==
    LET fields == Split(metadata.text, "-")
        size == PyInt(fields[1])
        custom == PyInt(fields[2])
        TypeError == [raised |-> TRUE, data_size |-> 0, custom_parameter |-> 0]
    IN IF ~metadata.present \/ metadata.text = <<>> THEN TypeError
       ELSE IF Len(fields) # 2 THEN TypeError
       ELSE IF ~size.ok THEN TypeError
       ELSE IF size.val < 1 THEN TypeError
       ELSE IF ~custom.ok THEN TypeError
       ELSE IF ~(custom.val >= lo /\ custom.val <= hi) THEN TypeError
       ELSE [raised |-> FALSE, data_size |-> size.val, custom_parameter |-> custom.val]

\* the TypeError checks, in the order of the code; range_of_custom_parameter
\* is range(lo, hi)
extract_parameters_from_metadata(metadata, lo, hi) ==
    LET fields == Split(metadata.text, "-")
        size == PyInt(fields[1])
        custom == PyInt(fields[2])
        TypeError == [raised |-> TRUE, data_size |-> 0, custom_parameter |-> 0]
    IN IF ~metadata.present \/ metadata.text = <<>> THEN TypeError
       ELSE IF Len(fields) # 2 THEN TypeError
       ELSE IF ~size.ok THEN TypeError
       ELSE IF size.val < 1 THEN TypeError
       ELSE IF ~custom.ok THEN TypeError
       ELSE IF ~(custom.val >= lo /\ custom.val < hi) THEN TypeError
       ELSE [raised |-> FALSE, data_size |-> size.val, custom_parameter |-> custom.val]

----------------------------------------------------------------------------
(* dct_steganography.py: a plane (image_channel) is [shape, cells]; cells    *)
(* holds image_channel[i][j][k][l] at ((i*shape[2] + j)*8 + k)*8 + l + 1,    *)
(* which is the order of the four nested loops.                              *)

PlaneSize(ch) == ch.shape[1] * ch.shape[2] * BlockSize * BlockSize

RowOf(n) == (n \div BlockSize) % BlockSize   \* k of the n-th cell
ColOf(n) == n % BlockSize                    \* l of the n-th cell

\* the column range moving the other way: l in range(max(0, perceptibility - k), 8)
InColumnRange_Narrowing(k, l, perceptibility) == l >= Max(0, perceptibility - k) /\ l < 8

\* l in range(max(0, 8 - k - perceptibility), 8)
InColumnRange(k, l, perceptibility) == l >= Max(0, 8 - k - perceptibility) /\ l < 8

\* the value test letting the 1s through: value != 0
Usable_NonZero(ch, n, perceptibility) ==
    /\ InColumnRange(RowOf(n), ColOf(n), perceptibility)
    /\ ch.cells[n + 1] # 0

\* the cell the loops visit and whose value is not in [0, 1]
Usable(ch, n, perceptibility) ==
    /\ InColumnRange(RowOf(n), ColOf(n), perceptibility)
    /\ ch.cells[n + 1] \notin {0, 1}

\* the cells the four loops reach whose value is not in [0, 1], in the order
\* the loops reach them (a write to one cell changes no other cell, so the
\* order is that of the plane as it was when the loops began)
RECURSIVE InOrder(_)
InOrder(cellSet) ==
    IF cellSet = {} THEN <<>>
    ELSE LET m == CHOOSE x \in cellSet : \A y \in cellSet : x <= y
         IN <<m>> \o InOrder(cellSet \ {m})

ScanOrder(ch, perceptibility) ==
    InOrder({n \in 0..(PlaneSize(ch) - 1) : Usable(ch, n, perceptibility)})

\* JpegImage.__compute_number_of_available_coefficients
compute_number_of_available_coefficients(ch, perceptibility) ==
    Cardinality({n \in 0..(PlaneSize(ch) - 1) : Usable(ch, n, perceptibility)})

\* JpegImage.__compute_storage_capacity
jpeg_compute_storage_capacity(image, perceptibility) ==
    (compute_number_of_available_coefficients(image.Y, perceptibility)
     + compute_number_of_available_coefficients(image.Cr, perceptibility)
     + compute_number_of_available_coefficients(image.Cb, perceptibility)) \div 8

\* the masks applied to the magnitude of the value, the sign put back after
ApplyBitmask_Magnitude(value, bit) ==
    LET magnitude == IF value < 0 THEN 0 - value ELSE value
        masked == IF bit = 0 THEN magnitude - (magnitude % 2)
                  ELSE magnitude - (magnitude % 2) + 1
    IN IF value < 0 THEN 0 - masked ELSE masked

\* value &= -2 (bit 0) and value |= 1 (bit 1) on a two's complement integer
ApplyBitmask(value, bit) ==
    IF bit = 0 THEN value - (value % 2) ELSE value - (value % 2) + 1

\* the body of the loops of __embed_data_into_channel from the at-th usable
\* cell on; raised stands for the IndexError of data[index] when index is not
\* below len(data)
RECURSIVE EmbedFrom(_, _, _, _, _)
EmbedFrom(ch, order, at, data, index) ==
    IF at > Len(order) THEN [channel |-> ch, index |-> index, raised |-> FALSE]
    ELSE IF index >= Len(data) THEN [channel |-> ch, index |-> index, raised |-> TRUE]
    ELSE LET written == [ch EXCEPT !.cells[order[at] + 1] =
                            ApplyBitmask(@, data[index + 1])]
         IN IF index + 1 = Len(data)
            THEN [channel |-> written, index |-> index + 1, raised |-> FALSE]
            ELSE EmbedFrom(written, order, at + 1, data, index + 1)

\* JpegImage.__embed_data_into_channel
embed_data_into_channel(ch, data, index, perceptibility) ==
    EmbedFrom(ch, ScanOrder(ch, perceptibility), 1, data, index)

\* the three channel calls of JpegImage.embed_data on the copy `image`
JpegEmbedPlanes(image, bit_data, perceptibility) ==
    LET y == embed_data_into_channel(image.Y, bit_data, 0, perceptibility)
        cr == embed_data_into_channel(image.Cr, bit_data, y.index, perceptibility)
        cb == embed_data_into_channel(image.Cb, bit_data, cr.index, perceptibility)
    IN IF y.raised THEN [image |-> image, index |-> y.index, raised |-> TRUE]
       ELSE IF y.index = Len(bit_data)
            THEN [image |-> [image EXCEPT !.Y = y.channel], index |-> y.index, raised |-> FALSE]
       ELSE IF cr.raised THEN [image |-> image, index |-> cr.index, raised |-> TRUE]
       ELSE IF cr.index = Len(bit_data)
            THEN [image |-> [image EXCEPT !.Y = y.channel, !.Cr = cr.channel],
                  index |-> cr.index, raised |-> FALSE]
       ELSE [image |-> [image EXCEPT !.Y = y.channel, !.Cr = cr.channel, !.Cb = cb.channel],
             index |-> cb.index, raised |-> cb.raised]

\* the body of the loops of __extract_data_from_channel from the at-th usable
\* cell on
RECURSIVE ExtractFrom(_, _, _, _, _)
ExtractFrom(ch, order, at, data_size, data) ==
    IF at > Len(order) THEN [data_size |-> data_size, data |-> data]
    ELSE IF data_size - 1 = 0
         THEN [data_size |-> 0, data |-> Append(data, ch.cells[order[at] + 1] % 2)]
    ELSE ExtractFrom(ch, order, at + 1, data_size - 1,
                     Append(data, ch.cells[order[at] + 1] % 2))

\* StegJpegImage.__extract_data_from_channel
extract_data_from_channel(ch, data_size, data, perceptibility) ==
    ExtractFrom(ch, ScanOrder(ch, perceptibility), 1, data_size, data)

\* the DCT scan dropping the bits that do not complete a byte
JpegExtractScan_Trim(steg_image, size, perceptibility) ==
    LET y == extract_data_from_channel(steg_image.Y, size, <<>>, perceptibility)
        cr == extract_data_from_channel(steg_image.Cr, y.data_size, y.data, perceptibility)
        cb == extract_data_from_channel(steg_image.Cb, cr.data_size, cr.data, perceptibility)
        last == IF y.data_size = 0 THEN y ELSE IF cr.data_size = 0 THEN cr ELSE cb
    IN [bytes |-> tobytes(SubSeq(last.data, 1, Len(last.data) - (Len(last.data) % 8))),
        missing |-> last.data_size, reads |-> Len(last.data)]

\* the scan of StegJpegImage.extract after the metadata is parsed; reads is
\* the number of coefficients whose value was appended to data
JpegExtractScan(steg_image, size, perceptibility) ==
    LET y == extract_data_from_channel(steg_image.Y, size, <<>>, perceptibility)
        cr == extract_data_from_channel(steg_image.Cr, y.data_size, y.data, perceptibility)
        cb == extract_data_from_channel(steg_image.Cb, cr.data_size, cr.data, perceptibility)
        last == IF y.data_size = 0 THEN y ELSE IF cr.data_size = 0 THEN cr ELSE cb
    IN [bytes |-> tobytes(last.data), missing |-> last.data_size, reads |-> Len(last.data)]

----------------------------------------------------------------------------
(* lsb_steganography.py: a pixel array is [shape, cells] with shape =        *)
(* <<rows, cols, channels>>; cells holds image[i][j][k] at                   *)
(* (i*cols + j)*channels + k + 1.                                            *)

ImageSize(image) == image.shape[1] * image.shape[2] * image.shape[3]   \* image.size

\* the number of samples the loops over i, j and k in range(3) visit
Visited(image) == image.shape[1] * image.shape[2] * ColourChannels

\* the q-th sample the loops visit: i, j, k and its place in cells
VisitI(image, q) == q \div (image.shape[2] * ColourChannels)
VisitJ(image, q) == (q \div ColourChannels) % image.shape[2]
VisitK(image, q) == q % ColourChannels
CellOf(image, q) ==
    (VisitI(image, q) * image.shape[2] + VisitJ(image, q)) * image.shape[3] + VisitK(image, q) + 1

\* PngImage.__compute_storage_capacity
png_compute_storage_capacity(image, number_of_least_significant_bits) ==
    (ImageSize(image) * number_of_least_significant_bits) \div 8

left_bound(image, q, nlsb) ==
    VisitI(image, q) * image.shape[2] * 3 * nlsb + VisitJ(image, q) * 3 * nlsb
    + VisitK(image, q) * nlsb

right_bound(image, q, nlsb) ==
    VisitI(image, q) * image.shape[2] * 3 * nlsb + VisitJ(image, q) * 3 * nlsb
    + (VisitK(image, q) + 1) * nlsb

\* the value with the zero fill on the left: str.rjust(8, '0')
pixel_value_FillLeft(old, bit_data, left, right, nlsb) ==
    LET text == Format08b(old)
    IN IntOfBits(SubSeq(text, 1, Len(text) - nlsb) \o Slice(bit_data, left, right), 0)

\* the value written to a sample: its leading bits, the payload bits, zero fill
pixel_value(old, bit_data, left, right, nlsb) ==
    LET text == Format08b(old)
    IN IntOfBits(ljust(SubSeq(text, 1, Len(text) - nlsb) \o Slice(bit_data, left, right), 8), 0)

\* the loops of PngImage.embed_data on the copy `image`, from the q-th visit on
RECURSIVE PngEmbedLoop(_, _, _, _)
PngEmbedLoop(image, q, bit_data, nlsb) ==
    IF q >= Visited(image) THEN [image |-> image, visits |-> q]
    ELSE LET c == CellOf(image, q)
             written == [image EXCEPT !.cells[c] =
                            pixel_value(@, bit_data, left_bound(image, q, nlsb),
                                        right_bound(image, q, nlsb), nlsb)]
         IN IF right_bound(image, q, nlsb) >= Len(bit_data)
            THEN [image |-> written, visits |-> q + 1]
            ELSE PngEmbedLoop(written, q + 1, bit_data, nlsb)

\* the loops of StegPngImage.extract, from the q-th visit on
RECURSIVE PngExtractLoop(_, _, _, _, _)
PngExtractLoop(image, q, data_size, data, nlsb) ==
    IF q >= Visited(image) THEN [data_size |-> data_size, data |-> data, reads |-> q]
    ELSE LET text == Format08b(image.cells[CellOf(image, q)])
             embedded_bits == SubSeq(text, Len(text) - nlsb + 1, Len(text))
         IN IF data_size - nlsb <= 0
            THEN [data_size |-> data_size - nlsb, data |-> data \o embedded_bits,
                  reads |-> q + 1]
            ELSE PngExtractLoop(image, q + 1, data_size - nlsb, data \o embedded_bits, nlsb)

\* the bits kept as they are, partial byte included
DropPartialByte_Keep(data) == data

\* data = data[:-(len(data) % 8)] when len(data) % 8 is not 0
DropPartialByte(data) ==
    IF Len(data) % 8 # 0 THEN SubSeq(data, 1, Len(data) - (Len(data) % 8)) ELSE data

\* the scan of StegPngImage.extract after the metadata is parsed
PngExtractScan(steg_image, size, nlsb) ==
    LET r == PngExtractLoop(steg_image, 0, size, <<>>, nlsb)
    IN [bytes |-> tobytes(DropPartialByte(r.data)), missing |-> r.data_size, reads |-> r.reads]

----------------------------------------------------------------------------
(* The carriers the model starts from *)

CoefVals == <<2, -1, 3, 1, -2, 5, -3, 4>>

\* coefficient n of a plane generated from a seed: seed 0 gives a plane of
\* 0s and 1s only (every block after the first all zero), other seeds a
\* sparse plane of positive and negative values
CoefAt(seed, n) ==
    IF seed = 0 THEN (IF n < 64 THEN n % 2 ELSE 0)
    ELSE IF (3 * RowOf(n) + 5 * ColOf(n) + seed + (n \div 64)) % 11 = 0
         THEN CoefVals[((n + seed) % Len(CoefVals)) + 1]
    ELSE 0

GenPlane(shape, seed) ==
    [shape |-> shape,
     cells |-> [c \in 1..(shape[1] * shape[2] * 64) |-> CoefAt(seed, c - 1)]]

\* luma of 1 x 2 blocks, chroma of 1 x 1 block each
GenJpeg(ySeed, cSeed) ==
    [Y  |-> GenPlane(<<1, 2>>, ySeed),
     Cr |-> GenPlane(<<1, 1>>, cSeed),
     Cb |-> GenPlane(<<1, 1>>, IF cSeed = 0 THEN 0 ELSE ((cSeed + ySeed) % MaxSeed) + 1)]

PixVals == <<165, 90, 7, 128, 0, 255>>

GenPng(shape, seed) ==
    [shape |-> shape,
     cells |-> [c \in 1..(shape[1] * shape[2] * shape[3]) |->
                   PixVals[(((c - 1) * (seed + 1) + seed) % Len(PixVals)) + 1]]]

PngShapes == {<<1, 1, 3>>, <<1, 2, 3>>, <<2, 1, 3>>, <<2, 2, 3>>,
              <<1, 1, 4>>, <<2, 1, 4>>}

\* the payloads handed to embed_data: the first len bytes of a byte pattern
PatBytes == <<165, 90, 255, 13, 60>>

Payload(len, pat) ==
    [q \in 1..len |-> PatBytes[(((q - 1) * (pat + 1) + pat) % Len(PatBytes)) + 1]]

Payloads == {Payload(len, pat) : len \in 0..MaxPayloadLen, pat \in 0..MaxPattern}

----------------------------------------------------------------------------
(* Objects *)

\* range_of_custom_parameter of the extract of each kind is range(1, ParamEnd)
ParamEnd(k) == IF k = "jpeg" THEN 9 ELSE 5

\* from_file: a parameter outside its range is replaced by the default
from_file_parameter(k, requested) ==
    IF requested >= 1 /\ requested < ParamEnd(k) THEN requested
    ELSE IF k = "jpeg" THEN 3 ELSE 1

compute_storage_capacity(k, image, parameter) ==
    IF k = "jpeg" THEN jpeg_compute_storage_capacity(image, parameter)
    ELSE png_compute_storage_capacity(image, parameter)

\* the capacity cached from the default parameter, not from the one given
NewCarrier_DefaultCapacity(k, image, parameter) ==
    [image |-> 1, exif |-> 1, parameter |-> parameter,
     storage_capacity |-> compute_storage_capacity(k, image, from_file_parameter(k, 0))]

\* JpegImage.__init__ / PngImage.__init__
NewCarrier(k, image, parameter) ==
    [image |-> 1, exif |-> 1, parameter |-> parameter,
     storage_capacity |-> compute_storage_capacity(k, image, parameter)]

NoExif == [has |-> FALSE, UserComment |-> <<>>]
NoEmbed == [outcome |-> "none", data |-> <<>>, written |-> 0]
NoExtract == [target |-> 0, outcome |-> "none", data_size |-> 0, parameter |-> 0,
              data |-> <<>>, reads |-> 0, missing |-> 0]
NoFile == [written |-> FALSE, data |-> <<>>]
NoArgs == [data |-> <<>>, watermark |-> FALSE]
NoImage == [written |-> FALSE, steg_image |-> 0, UserComment |-> <<>>]
NoDet == [mode |-> "none", outcome |-> "none", planes |-> <<>>]

\* the state after JpegImage.from_file / PngImage.from_file
Init ==
    /\ kind \in {"jpeg", "png"}
    /\ \E requested \in 0..9 :
         IF kind = "jpeg"
         THEN \E ySeed \in 0..MaxSeed, cSeed \in 0..MaxSeed :
                /\ heapImg = <<GenJpeg(ySeed, cSeed)>>
                /\ carrier = NewCarrier(kind, GenJpeg(ySeed, cSeed),
                                        from_file_parameter(kind, requested))
         ELSE \E shape \in PngShapes, seed \in 0..MaxPixSeed :
                /\ heapImg = <<GenPng(shape, seed)>>
                /\ carrier = NewCarrier(kind, GenPng(shape, seed),
                                        from_file_parameter(kind, requested))
    /\ heapExif = <<NoExif>>
    /\ stegos = <<>>
    /\ embedResult = NoEmbed
    /\ calls = 0
    /\ pc = "idle"
    /\ ex = NoExtract
    /\ outFile = NoFile
    /\ args = NoArgs
    /\ outImage = NoImage
    /\ det = NoDet

----------------------------------------------------------------------------
(* embed_data *)

\* the metadata holding the size in bytes
FormatMetadata_Bytes(data, parameter) == DecStr(Len(data)) \o <<"-">> \o DecStr(parameter)

\* f"{len(data) * 8}-{parameter}"
FormatMetadata(data, parameter) == DecStr(Len(data) * 8) \o <<"-">> \o DecStr(parameter)

\* image = self.image: the same object
copy_Alias(heap, ref) == [heap |-> heap, ref |-> ref]

\* image = self.image.copy(): a new object holding the same values
copy(heap, ref) == [heap |-> Append(heap, heap[ref]), ref |-> Len(heap) + 1]

\* the writes of embed_data into the object `image`
EmbedPlanes(k, image, bit_data, parameter) ==
    IF k = "jpeg"
    THEN LET r == JpegEmbedPlanes(image, bit_data, parameter)
         IN [image |-> r.image, raised |-> r.raised, written |-> r.index]
    ELSE LET r == PngEmbedLoop(image, 0, bit_data, parameter)
         IN [image |-> r.image, raised |-> FALSE,
             written |-> Min(Len(bit_data), r.visits * parameter)]

\* StegJpegImage.to_file / StegPngImage.to_file: the planes and the exif
\* record of the stego object, as they are when the file is written
to_file(steg_image, UserComment) ==
    [written |-> TRUE, steg_image |-> steg_image, UserComment |-> UserComment]

\* embed_data writing the record before it checks the capacity
EmbedData_RecordFirst(data) ==
    /\ pc = "idle"
    /\ calls < MaxEmbeds
    /\ calls' = calls + 1
    /\ UNCHANGED <<kind, carrier, pc, ex, outFile, args, det>>
    /\ heapExif' = [heapExif EXCEPT ![carrier.exif] =
                       [has |-> TRUE,
                        UserComment |-> FormatMetadata(data, carrier.parameter)]]
    /\ IF Len(data) > carrier.storage_capacity
       THEN /\ embedResult' = [outcome |-> "ValueError", data |-> data, written |-> 0]
            /\ UNCHANGED <<heapImg, stegos, outImage>>
       ELSE LET c == copy(heapImg, carrier.image)
                r == EmbedPlanes(kind, c.heap[c.ref], frombytes(data), carrier.parameter)
            IN IF r.raised
               THEN /\ embedResult' = [outcome |-> "IndexError", data |-> data,
                                       written |-> 0]
                    /\ UNCHANGED <<heapImg, stegos, outImage>>
               ELSE /\ embedResult' = [outcome |-> "ok", data |-> data,
                                       written |-> r.written]
                    /\ heapImg' = [c.heap EXCEPT ![c.ref] = r.image]
                    /\ stegos' = Append(stegos, [steg_image |-> c.ref,
                                                 exif |-> carrier.exif,
                                                 payload |-> data])
                    /\ outImage' = to_file(c.ref, FormatMetadata(data, carrier.parameter))

\* JpegImage.embed_data / PngImage.embed_data, and the to_file that follows
\* a call that returns
EmbedData(data) ==
    /\ pc = "idle"
    /\ calls < MaxEmbeds
    /\ calls' = calls + 1
    /\ UNCHANGED <<kind, carrier, pc, ex, outFile, args, det>>
    /\ IF Len(data) > carrier.storage_capacity
       THEN /\ embedResult' = [outcome |-> "ValueError", data |-> data, written |-> 0]
            /\ UNCHANGED <<heapImg, heapExif, stegos, outImage>>
       ELSE LET metadata == FormatMetadata(data, carrier.parameter)
                c == copy(heapImg, carrier.image)
                r == EmbedPlanes(kind, c.heap[c.ref], frombytes(data), carrier.parameter)
            IN /\ heapExif' = [heapExif EXCEPT ![carrier.exif] =
                                  [has |-> TRUE, UserComment |-> metadata]]
               /\ IF r.raised
                  THEN /\ embedResult' = [outcome |-> "IndexError", data |-> data,
                                          written |-> 0]
                       /\ UNCHANGED <<heapImg, stegos, outImage>>
                  ELSE /\ embedResult' = [outcome |-> "ok", data |-> data,
                                          written |-> r.written]
                       /\ heapImg' = [c.heap EXCEPT ![c.ref] = r.image]
                       /\ stegos' = Append(stegos, [steg_image |-> c.ref,
                                                    exif |-> carrier.exif,
                                                    payload |-> data])
                       /\ outImage' = to_file(c.ref, metadata)

----------------------------------------------------------------------------
(* extract, as data_extraction runs it: parse the metadata, scan, write *)

\* the plane scans of extract, by kind
ScanPlanes(k, steg_image, size, parameter) ==
    IF k = "jpeg" THEN JpegExtractScan(steg_image, size, parameter)
    ELSE PngExtractScan(steg_image, size, parameter)

\* extract reading the planes before it checks the metadata
ExtractParse_ScanFirst(s) ==
    /\ pc = "idle"
    /\ s \in 1..Len(stegos)
    /\ LET metadata == ExifGet(heapExif[stegos[s].exif])
           r == extract_parameters_from_metadata(metadata, 1, ParamEnd(kind))
           scan == ScanPlanes(kind, heapImg[stegos[s].steg_image], 8, 1)
       IN IF r.raised
          THEN /\ ex' = [NoExtract EXCEPT !.target = s, !.outcome = "TypeError",
                                          !.reads = scan.reads]
               /\ pc' = "idle"
          ELSE /\ ex' = [NoExtract EXCEPT !.target = s, !.outcome = "running",
                                          !.data_size = r.data_size,
                                          !.parameter = r.custom_parameter]
               /\ pc' = "scan"
    /\ UNCHANGED <<kind, heapImg, heapExif, carrier, stegos, embedResult, calls, outFile,
                 args, outImage, det>>

\* lines 51-53 (dct) / 37-39 (lsb): a TypeError ends the call
ExtractParse(s) ==
    /\ pc = "idle"
    /\ s \in 1..Len(stegos)
    /\ LET metadata == ExifGet(heapExif[stegos[s].exif])
           r == extract_parameters_from_metadata(metadata, 1, ParamEnd(kind))
       IN IF r.raised
          THEN /\ ex' = [NoExtract EXCEPT !.target = s, !.outcome = "TypeError"]
               /\ pc' = "idle"
          ELSE /\ ex' = [NoExtract EXCEPT !.target = s, !.outcome = "running",
                                          !.data_size = r.data_size,
                                          !.parameter = r.custom_parameter]
               /\ pc' = "scan"
    /\ UNCHANGED <<kind, heapImg, heapExif, carrier, stegos, embedResult, calls, outFile,
                 args, outImage, det>>

\* the plane scans, the return of extract and the file.write of data_extraction
ExtractScan ==
    /\ pc = "scan"
    /\ LET r == ScanPlanes(kind, heapImg[stegos[ex.target].steg_image],
                           ex.data_size, ex.parameter)
       IN /\ ex' = [ex EXCEPT !.outcome = "ok", !.data = r.bytes,
                              !.reads = r.reads, !.missing = r.missing]
          /\ outFile' = [written |-> TRUE, data |-> r.bytes]
    /\ pc' = "idle"
    /\ UNCHANGED <<kind, heapImg, heapExif, carrier, stegos, embedResult, calls,
                 args, outImage, det>>

Next ==
    \/ \E data \in Payloads : EmbedData(data)
    \/ \E s \in 1..Len(stegos) : ExtractParse(s)
    \/ ExtractScan

Spec == Init /\ [][Next]_vars

----------------------------------------------------------------------------
(* Extraction from a stego file whose UserComment and planes are whatever   *)
(* the file holds (altered metadata, cropped planes): the state after       *)
(* StegJpegImage.from_file / StegPngImage.from_file.                        *)

MetaChars == {"0", "1", "8", "-", "+", " ", "_", "x"}

FreeTexts == UNION {[1..len -> MetaChars] : len \in 0..MaxMetaLen}

\* records of the two-field form, with sizes and parameters in and out of range
FieldTexts == {DecStr(size) \o <<"-">> \o DecStr(parameter) :
                  size \in 0..MaxMetaBits, parameter \in 0..9}

NoCarrier == [image |-> 0, exif |-> 0, parameter |-> 0, storage_capacity |-> 0]

InitTamper ==
    /\ kind \in {"jpeg", "png"}
    /\ \/ \E text \in FreeTexts, has \in BOOLEAN :
            /\ (has \/ text = <<>>)
            /\ heapExif = <<[has |-> has, UserComment |-> text]>>
            /\ heapImg = <<IF kind = "jpeg" THEN GenJpeg(1, 1) ELSE GenPng(<<1, 2, 3>>, 0)>>
       \/ \E text \in FieldTexts :
            /\ heapExif = <<[has |-> TRUE, UserComment |-> text]>>
            /\ IF kind = "jpeg"
               THEN \E ySeed \in 0..MaxSeed, cSeed \in 0..MaxSeed :
                       heapImg = <<GenJpeg(ySeed, cSeed)>>
               ELSE \E shape \in PngShapes, seed \in 0..MaxPixSeed :
                       heapImg = <<GenPng(shape, seed)>>
    /\ carrier = NoCarrier
    /\ stegos = <<[steg_image |-> 1, exif |-> 1, payload |-> <<>>]>>
    /\ embedResult = NoEmbed
    /\ calls = 0
    /\ pc = "idle"
    /\ ex = NoExtract
    /\ outFile = NoFile
    /\ args = NoArgs
    /\ outImage = NoImage
    /\ det = NoDet

NextTamper ==
    \/ \E s \in 1..Len(stegos) : ExtractParse(s)
    \/ ExtractScan

SpecTamper == InitTamper /\ [][NextTamper]_vars

----------------------------------------------------------------------------
(* The embed command of steg.py: data_embedding reads the data file, loads  *)
(* the carrier, multiplies the data under --watermark, then embeds and      *)
(* writes the stego image.                                                  *)

\* data * k for bytes: k copies one after the other, none for k <= 0
RECURSIVE Repeat(_, _)
Repeat(data, k) == IF k <= 0 THEN <<>> ELSE data \o Repeat(data, k - 1)

\* the data cut to fill the capacity, a partial copy at its end
WatermarkData_Fill(data, storage_capacity) ==
    [q \in 1..storage_capacity |-> data[((q - 1) % Len(data)) + 1]]

\* data *= image.storage_capacity // len(data)
WatermarkData(data, storage_capacity) ==
    Repeat(data, storage_capacity \div Len(data))

\* the pixel carriers of the command: one more, whose capacities 5 and 7
\* leave a remainder after two or three copies
CliPngShapes == PngShapes \cup {<<1, 5, 3>>}

\* the state after the data file is read and from_file has returned
InitCli ==
    /\ kind \in {"jpeg", "png"}
    /\ \E requested \in 0..9 :
         IF kind = "jpeg"
         THEN \E ySeed \in 0..MaxSeed, cSeed \in 0..MaxSeed :
                /\ heapImg = <<GenJpeg(ySeed, cSeed)>>
                /\ carrier = NewCarrier(kind, GenJpeg(ySeed, cSeed),
                                        from_file_parameter(kind, requested))
         ELSE \E shape \in CliPngShapes, seed \in 0..MaxPixSeed :
                /\ heapImg = <<GenPng(shape, seed)>>
                /\ carrier = NewCarrier(kind, GenPng(shape, seed),
                                        from_file_parameter(kind, requested))
    /\ args \in [data : Payloads, watermark : BOOLEAN]
    /\ heapExif = <<NoExif>>
    /\ stegos = <<>>
    /\ embedResult = NoEmbed
    /\ calls = 0
    /\ pc = "idle"
    /\ ex = NoExtract
    /\ outFile = NoFile
    /\ outImage = NoImage
    /\ det = NoDet

\* data_embedding from the multiplication on: len(data) = 0 under --watermark
\* ends the command in ZeroDivisionError before embed_data is called
DataEmbedding ==
    /\ calls = 0
    /\ IF args.watermark /\ Len(args.data) = 0
       THEN /\ embedResult' = [outcome |-> "ZeroDivisionError", data |-> <<>>,
                               written |-> 0]
            /\ calls' = calls + 1
            /\ UNCHANGED <<kind, heapImg, heapExif, carrier, stegos, pc, ex, outFile,
                           args, outImage, det>>
       ELSE EmbedData(IF args.watermark
                      THEN WatermarkData(args.data, carrier.storage_capacity)
                      ELSE args.data)

NextCli == DataEmbedding

SpecCli == InitCli /\ [][NextCli]_vars

----------------------------------------------------------------------------
(* The detectors of steganography/steganalysis.py: lsb_detection on a pixel *)
(* image (kind "png") and dct_detection on a coefficient image (kind        *)
(* "jpeg"). A tested plane is a sequence of values; its test record holds   *)
(* the observed and the expected frequencies and the result of the test.    *)

\* values & 1, for numpy integers of either sign
LowBit(v) == v % 2

\* np.histogram(lsb_values, bins=range(3)) of values & 1: the 0s, the 1s
Histogram(values) ==
    <<Cardinality({q \in 1..Len(values) : LowBit(values[q]) = 0}),
      Cardinality({q \in 1..Len(values) : LowBit(values[q]) = 1})>>

\* y_coefficients[(y_coefficients != 0) & (y_coefficients != 1)]
NotZeroOrOne(v) == v # 0 /\ v # 1
FilterCoefficients(ch) == SelectSeq(ch.cells, NotZeroOrOne)

calculate_dct_distribution(coefficients) == Histogram(coefficients)

calculate_expected_frequency(coefficients) ==
    LET total == Len(coefficients)
        freq1 == total \div 2
        freq2 == IF total % 2 = 1 THEN (total \div 2) + 1 ELSE total \div 2
    IN <<freq1, freq2>>

\* np.full_like(observed_freq, fill_value=len(lsb_values) / 2): the float
\* len / 2 is cast to the integer dtype of observed_freq
full_like(lsb_values) == <<Len(lsb_values) \div 2, Len(lsb_values) \div 2>>

\* alpha = 0.05 with one degree of freedom: p_value < alpha iff the statistic
\* is above 3.84145882..., which lies between these two fractions
CriticalDen == 10000
CriticalLow == 38414
CriticalHigh == 38415

\* numerator / denominator > bound / CriticalDen, for 3 < bound / CriticalDen < 4
\* (the products stay below 2^31)
Above(numerator, denominator, bound) ==
    IF numerator >= 4 * denominator THEN TRUE
    ELSE IF numerator <= 3 * denominator THEN FALSE
    ELSE (numerator - 3 * denominator) * CriticalDen
           > (bound - 3 * CriticalDen) * denominator

Abs(x) == IF x < 0 THEN 0 - x ELSE x

\* chi2_contingency([observed, expected]) of scipy.stats and the comparison
\* p_value < alpha, as the set of results the call can have. The two rows
\* form a 2 x 2 contingency table; with Yates' correction the statistic is
\* T * max(0, 2|ad - bc| - T)^2 / (4 * r1 * r2 * c1 * c2). A zero marginal sum
\* makes an internally computed expected frequency zero: ValueError. A table
\* of zeros gives 0/0: p_value is nan (p_value < alpha is False) or the call
\* fails, by the version of the library. The p-value is a floating-point
\* number, so a statistic between the two fractions can fall on either side.
chi2_contingency(observed, expected) ==
    LET a == observed[1]
        b == observed[2]
        c == expected[1]
        d == expected[2]
        r1 == a + b
        r2 == c + d
        c1 == a + c
        c2 == b + d
        T == r1 + r2
        m == Max(0, 2 * Abs(a * d - b * c) - T)
    IN IF T = 0 THEN {"nan", "ValueError"}
       ELSE IF r1 = 0 \/ r2 = 0 \/ c1 = 0 \/ c2 = 0 THEN {"ValueError"}
       ELSE (IF Above(T * m * m, 4 * r1 * r2 * c1 * c2, CriticalLow)
             THEN {"significant"} ELSE {})
            \cup (IF Above(T * m * m, 4 * r1 * r2 * c1 * c2, CriticalHigh)
                  THEN {} ELSE {"not significant"})

\* the records of one tested plane, one for each result its test can have
PlaneTests(samples, expected) ==
    {[N |-> Len(samples), observed |-> Histogram(samples), expected |-> expected,
      test |-> t] : t \in chi2_contingency(Histogram(samples), expected)}

\* the tests run until the first one that raises
RECURSIVE RunTests(_)
RunTests(tests) ==
    IF tests = <<>> THEN <<>>
    ELSE IF Head(tests).test = "ValueError" THEN <<Head(tests)>>
    ELSE <<Head(tests)>> \o RunTests(Tail(tests))

\* any(p_value < alpha ...): "detected" / "no evidence", or the exception
Verdict(mode, tests) ==
    LET ran == RunTests(tests)
    IN [mode |-> mode,
        outcome |-> IF ran[Len(ran)].test = "ValueError" THEN "ValueError"
                    ELSE IF \E i \in 1..Len(ran) : ran[i].test = "significant"
                         THEN "detected"
                    ELSE "no evidence",
        planes |-> ran]

\* dct_detection
dct_detection(dct, mode) ==
    LET y == FilterCoefficients(dct.Y)
        cr == FilterCoefficients(dct.Cr)
        cb == FilterCoefficients(dct.Cb)
    IN IF mode = "grayscale"
       THEN {Verdict(mode, <<ty>>) :
                ty \in PlaneTests(y, calculate_expected_frequency(y))}
       ELSE {Verdict(mode, <<ty, tcr, tcb>>) :
                ty \in PlaneTests(y, calculate_expected_frequency(y)),
                tcr \in PlaneTests(cr, calculate_expected_frequency(cr)),
                tcb \in PlaneTests(cb, calculate_expected_frequency(cb))}

\* image[i].flatten() of a rows x cols x 3 array: the samples of row i
RowOfImage(image, i) ==
    SubSeq(image.cells, i * image.shape[2] * 3 + 1, (i + 1) * image.shape[2] * 3)

\* lsb_detection
lsb_detection(image, mode) ==
    IF mode = "grayscale"
    THEN {Verdict(mode, <<t>>) : t \in PlaneTests(image.cells, full_like(image.cells))}
    ELSE IF image.shape[1] < 3
         THEN {[mode |-> mode, outcome |-> "IndexError", planes |-> <<>>]}
    ELSE LET r == RowOfImage(image, 0)
             g == RowOfImage(image, 1)
             b == RowOfImage(image, 2)
         IN {Verdict(mode, <<tr, tg, tb>>) :
                tr \in PlaneTests(r, full_like(r)),
                tg \in PlaneTests(g, full_like(g)),
                tb \in PlaneTests(b, full_like(b))}

(* The images under test *)

MaxSamples == 10    \* most coefficients other than 0 and 1 in a tested plane
MaxDetPattern == 2  \* the low bits of the samples follow patterns 0..MaxDetPattern

\* pattern 0: every low bit 0; pattern p: every (p+1)-th low bit 1
PatternBit(pat, c) == IF pat # 0 /\ c % (pat + 1) = 0 THEN 1 ELSE 0

\* a block whose first `count` coefficients are neither 0 nor 1, of both
\* signs, the others 0 and 1
DetPlane(count, pat) ==
    [shape |-> <<1, 1>>,
     cells |-> [c \in 1..64 |->
                  IF c > count THEN c % 2
                  ELSE (IF c % 3 = 0 THEN -4 ELSE 2 * c) + PatternBit(pat, c)]]

DetJpeg(nY, nC, pat) ==
    [Y  |-> DetPlane(nY, pat),
     Cr |-> DetPlane(nC, pat),
     Cb |-> DetPlane((nY + nC) % (MaxSamples + 1), 0)]

\* cv2.imread: rows x cols samples (IMREAD_GRAYSCALE) or rows x cols x 3
GrayShapes == {<<1, 1>>, <<1, 3>>, <<2, 4>>, <<3, 3>>, <<2, 5>>, <<3, 4>>}
ColourShapes == {<<1, 2, 3>>, <<2, 2, 3>>, <<3, 1, 3>>, <<3, 3, 3>>, <<4, 3, 3>>, <<3, 4, 3>>}

DetPixels(shape, pat) ==
    [shape |-> shape,
     cells |-> [c \in 1..(shape[1] * shape[2] * (IF Len(shape) = 3 THEN 3 ELSE 1)) |->
                  2 * ((37 * c) % 128) + PatternBit(pat, c)]]

InitDetect ==
    /\ kind \in {"jpeg", "png"}
    /\ \E mode \in {"grayscale", "colour"}, pat \in 0..MaxDetPattern :
         /\ det = [NoDet EXCEPT !.mode = mode]
         /\ IF kind = "jpeg"
            THEN \E nY \in 0..MaxSamples, nC \in 0..MaxSamples :
                    heapImg = <<DetJpeg(nY, nC, pat)>>
            ELSE \E shape \in (IF mode = "grayscale" THEN GrayShapes ELSE ColourShapes) :
                    heapImg = <<DetPixels(shape, pat)>>
    /\ heapExif = <<NoExif>>
    /\ carrier = NoCarrier
    /\ stegos = <<>>
    /\ embedResult = NoEmbed
    /\ calls = 0
    /\ pc = "idle"
    /\ ex = NoExtract
    /\ outFile = NoFile
    /\ args = NoArgs
    /\ outImage = NoImage

\* one run of the detector on the image
Detect ==
    /\ det.outcome = "none"
    /\ det' \in (IF kind = "jpeg" THEN dct_detection(heapImg[1], det.mode)
                 ELSE lsb_detection(heapImg[1], det.mode))
    /\ UNCHANGED <<kind, heapImg, heapExif, carrier, stegos, embedResult, calls, pc, ex,
                   outFile, args, outImage>>

NextDetect == Detect

SpecDetect == InitDetect /\ [][NextDetect]_vars

----------------------------------------------------------------------------
(* Properties *)

EmbedCalled == embedResult.outcome # "none"

\* the most recent embed_data call returned the newest stego object and the
\* most recent extract call ran on that object to its end
ExtractedNewest ==
    /\ embedResult.outcome = "ok"
    /\ pc = "idle"
    /\ ex.outcome \in {"ok", "TypeError"}
    /\ ex.target = Len(stegos)

RoundTrip ==
    /\ (EmbedCalled /\ Len(embedResult.data) <= carrier.storage_capacity
          => embedResult.outcome = "ok")
    /\ (ExtractedNewest => ex.outcome = "ok" /\ ex.data = embedResult.data)

\* C1: DCT round trip. For every coefficient carrier, every perceptibility in
\* 1..8 and every payload no longer than storage_capacity, embed_data returns
\* a stego object and extract() on it returns exactly the payload.
C1_DctRoundTrip == kind = "jpeg" => RoundTrip

\* C2: pixel round trip. For every pixel carrier with 3 or more channels,
\* every number_of_least_significant_bits in 1..4 and every payload no longer
\* than storage_capacity, embed_data returns a stego object and extract() on
\* it returns exactly the payload.
C2_PixelRoundTrip == kind = "png" => RoundTrip

\* C3: capacity boundary, both kinds. embed_data raises ValueError exactly
\* when len(payload) > storage_capacity, and a payload of length equal to
\* storage_capacity is accepted and all of its bits are embedded.
C3_CapacityBoundary ==
    EmbedCalled =>
        /\ (embedResult.outcome = "ValueError"
              <=> Len(embedResult.data) > carrier.storage_capacity)
        /\ (Len(embedResult.data) = carrier.storage_capacity
              => /\ embedResult.outcome = "ok"
                 /\ embedResult.written = 8 * Len(embedResult.data))

\* C4: metadata fidelity, both kinds. After a successful embed_data(payload)
\* the UserComment record of the carrier and of the returned stego object is
\* the text "<len(payload)*8>-<parameter>": it splits on "-" into two fields
\* that read as the integers len(payload)*8 and the carrier's parameter.
C4_MetadataFidelity ==
    embedResult.outcome = "ok" =>
        LET own == heapExif[carrier.exif]
            returned == heapExif[stegos[Len(stegos)].exif]
            fields == Split(returned.UserComment, "-")
        IN /\ own.has /\ returned.has
           /\ own.UserComment = returned.UserComment
           /\ Len(fields) = 2
           /\ fields[1] = DecStr(8 * Len(embedResult.data))
           /\ fields[2] = DecStr(carrier.parameter)
           /\ PyInt(fields[1]) = [ok |-> TRUE, val |-> 8 * Len(embedResult.data)]
           /\ PyInt(fields[2]) = [ok |-> TRUE, val |-> carrier.parameter]

C4_Witness ==
    /\ kind = "png"
    /\ embedResult.outcome = "ok"
    /\ Len(embedResult.data) = 2
    /\ carrier.parameter = 4
    /\ heapExif[carrier.exif].UserComment = <<"1", "6", "-", "4">>

\* the record extract reads from the stego object it runs on
RecordOf(s) == heapExif[stegos[s].exif]

\* a record that is absent or empty, does not split on "-" into exactly two
\* fields, has a field that is not an integer, a payload_bit_length below 1,
\* or a parameter outside 1..8 (DCT) / 1..4 (pixel)
Malformed(record, k) ==
    LET fields == Split(record.UserComment, "-")
    IN \/ ~record.has
       \/ record.UserComment = <<>>
       \/ Len(fields) # 2
       \/ ~PyInt(fields[1]).ok
       \/ ~PyInt(fields[2]).ok
       \/ PyInt(fields[1]).val < 1
       \/ PyInt(fields[2]).val \notin (IF k = "jpeg" THEN 1..8 ELSE 1..4)

\* C5: extract raises TypeError exactly for the malformed records: absent or
\* empty, not two fields, a non-integer field, payload_bit_length < 1, or a
\* parameter out of its range; for every other record it does not.
C5_MalformedMetadata ==
    ex.outcome # "none" =>
        (ex.outcome = "TypeError" <=> Malformed(RecordOf(ex.target), kind))

C5_Witness ==
    /\ kind = "png"
    /\ ex.outcome = "TypeError"
    /\ RecordOf(ex.target).UserComment = <<"1", "6", "-", "5">>

\* C6: in every extract call the metadata is parsed with success before any
\* sample of a plane is read; on a malformed record the call ends in TypeError
\* with zero samples read and data_extraction writes no output file.
C6_ParseBeforeScan ==
    [][/\ (ex'.reads > 0 /\ ex' # ex
             => /\ pc = "scan" /\ ex.outcome = "running" /\ ex.reads = 0
                /\ ~Malformed(RecordOf(ex.target), kind))
       /\ (outFile' # outFile => ex'.outcome = "ok")
       /\ (ex'.outcome = "TypeError" => ex'.reads = 0 /\ outFile' = outFile)]_vars

C6_Witness ==
    /\ ex.outcome = "TypeError"
    /\ RecordOf(ex.target).UserComment = <<"x", "-", "1">>
    /\ ex.reads = 0
    /\ ~outFile.written

\* available_bits of a stego object under the parameter of its metadata
AvailableBits(k, steg_image, parameter) ==
    IF k = "jpeg"
    THEN compute_number_of_available_coefficients(steg_image.Y, parameter)
         + compute_number_of_available_coefficients(steg_image.Cr, parameter)
         + compute_number_of_available_coefficients(steg_image.Cb, parameter)
    ELSE steg_image.shape[1] * steg_image.shape[2] * 3 * parameter

\* the extract call ended on a carrier with fewer available bits than the
\* payload_bit_length of its metadata
Truncated(k) ==
    /\ kind = k
    /\ ex.outcome = "ok"
    /\ AvailableBits(k, heapImg[stegos[ex.target].steg_image], ex.parameter) < ex.data_size

ExAvailable == AvailableBits(kind, heapImg[stegos[ex.target].steg_image], ex.parameter)

\* C7 as stated: on a truncated DCT carrier extract returns exactly
\* floor(available_bits / 8) bytes and reports payload_bit_length -
\* available_bits missing bits.
C7_FloorBytes ==
    Truncated("jpeg") =>
        /\ Len(ex.data) = ExAvailable \div 8
        /\ ex.missing = ex.data_size - ExAvailable

\* C7 amended: on a truncated DCT carrier extract does not fail, returns
\* exactly ceil(available_bits / 8) bytes (the bits read, the last byte filled
\* with zero bits) and reports payload_bit_length - available_bits missing
\* bits.
C7_DctTruncation ==
    Truncated("jpeg") =>
        /\ Len(ex.data) = (ExAvailable + 7) \div 8
        /\ ex.missing = ex.data_size - ExAvailable
        /\ ex.reads = ExAvailable

C7_Witness ==
    /\ Truncated("jpeg")
    /\ ExAvailable % 8 # 0
    /\ ExAvailable > 8

\* C8: on a truncated pixel carrier (rows*cols*3*n below payload_bit_length)
\* extract does not fail, drops the trailing bits that do not complete a byte,
\* returns exactly floor(available_bits / 8) bytes and reports
\* payload_bit_length - available_bits missing bits.
C8_PixelTruncation ==
    Truncated("png") =>
        /\ Len(ex.data) = ExAvailable \div 8
        /\ ex.missing = ex.data_size - ExAvailable

C8_Witness ==
    /\ Truncated("png")
    /\ ExAvailable % 8 # 0
    /\ ExAvailable > 8

\* C9: embed_data never changes a sample of the source carrier's planes,
\* whether it returns or raises, and the planes of every stego object it
\* returns are an object of their own, not the source's.
C9_SourceUnchanged ==
    [][/\ heapImg'[carrier'.image] = heapImg[carrier.image]
       /\ \A s \in 1..Len(stegos') : stegos'[s].steg_image # carrier'.image]_vars

C9_Witness ==
    \E s \in 1..Len(stegos) :
        /\ stegos[s].steg_image # carrier.image
        /\ heapImg[stegos[s].steg_image] # heapImg[carrier.image]

\* C10: a stego object keeps the metadata written for its own payload through
\* every later embed_data call on the same source carrier: after each call
\* that returns, the record of every stego object returned so far is the one
\* written for its own payload.
C10_StegoImmutable ==
    embedResult.outcome = "ok" => \A s \in 1..Len(stegos) :
        /\ RecordOf(s).has
        /\ RecordOf(s).UserComment = FormatMetadata(stegos[s].payload, carrier.parameter)

\* the coefficient planes of a DCT image in the order they are scanned
Planes(image) == <<image.Y, image.Cr, image.Cb>>

\* C11: DCT capacity monotonicity. For every coefficient carrier and every
\* pair of perceptibility values p < q in 1..8, the storage_capacity computed
\* with p is <= the storage_capacity computed with q, and every position
\* eligible under p is also eligible under q.
C11_CapacityMonotone ==
    kind = "jpeg" =>
        \A p \in 1..8, q \in 1..8 :
            p < q =>
                /\ jpeg_compute_storage_capacity(heapImg[carrier.image], p)
                      <= jpeg_compute_storage_capacity(heapImg[carrier.image], q)
                /\ \A i \in 1..3 :
                      LET ch == Planes(heapImg[carrier.image])[i]
                      IN \A n \in 0..(PlaneSize(ch) - 1) :
                            Usable(ch, n, p) => Usable(ch, n, q)

\* a carrier loaded with perceptibility 3 whose capacity grows with it
C11_Witness ==
    /\ kind = "jpeg"
    /\ carrier.parameter = 3
    /\ carrier.storage_capacity > jpeg_compute_storage_capacity(heapImg[carrier.image], 1)
    /\ compute_number_of_available_coefficients(heapImg[carrier.image].Y, 3)
         < compute_number_of_available_coefficients(heapImg[carrier.image].Y, 8)

\* C12: pixel capacity is linear in bits_per_channel. For every pixel carrier
\* and every number_of_least_significant_bits n in 1..4, storage_capacity is
\* floor(usable_units * n / 8), usable_units being the number of channel
\* samples the scan of embed_data visits (rows * cols * 3).
C12_PixelCapacity ==
    kind = "png" =>
        LET image == heapImg[carrier.image]
            usable_units == image.shape[1] * image.shape[2] * 3
        IN carrier.storage_capacity = (usable_units * carrier.parameter) \div 8

\* the planes of the carrier and of the stego object returned last
SourceImage == heapImg[carrier.image]
NewestStego == heapImg[stegos[Len(stegos)].steg_image]

\* the cells of a pixel array that receive payload bits: those of the first
\* ceil(bits / n) samples of the scan
PixelReceivers(image, bits, n) ==
    {CellOf(image, q) : q \in 0..(Min((bits + n - 1) \div n, Visited(image)) - 1)}

\* the cells of a coefficient plane that receive payload bits when `skipped`
\* bits went to the planes before it: the next eligible cells in scan order
PlaneReceivers(ch, bits, skipped, perceptibility) ==
    LET order == ScanOrder(ch, perceptibility)
    IN {order[q] + 1 : q \in 1..Min(Max(bits - skipped, 0), Len(order))}

\* every cell of plane `after` outside `receivers` holds the value of `before`
SameOutside(before, after, receivers) ==
    \A c \in 1..Len(before.cells) :
        c \notin receivers => after.cells[c] = before.cells[c]

\* C13: embedding stops as soon as the last payload bit is written. For both
\* kinds and every accepted payload, every position after the one that
\* received the last payload bit, and every ineligible position, has in the
\* stego planes the value it has in the source planes.
C13_StopsAfterLastBit ==
    embedResult.outcome = "ok" =>
        LET bits == 8 * Len(embedResult.data)
            p == carrier.parameter
        IN IF kind = "png"
           THEN SameOutside(SourceImage, NewestStego, PixelReceivers(SourceImage, bits, p))
           ELSE LET nY == compute_number_of_available_coefficients(SourceImage.Y, p)
                    nCr == compute_number_of_available_coefficients(SourceImage.Cr, p)
                IN /\ SameOutside(SourceImage.Y, NewestStego.Y,
                                  PlaneReceivers(SourceImage.Y, bits, 0, p))
                   /\ SameOutside(SourceImage.Cr, NewestStego.Cr,
                                  PlaneReceivers(SourceImage.Cr, bits, nY, p))
                   /\ SameOutside(SourceImage.Cb, NewestStego.Cb,
                                  PlaneReceivers(SourceImage.Cb, bits, nY + nCr, p))

\* C14: an embedding error leaves nothing partially mutated. When embed_data
\* fails with ValueError (capacity exceeded) the carrier's planes and its
\* UserComment record are as before the call, no stego object is produced
\* and the embed command writes no output image.
C14_FailureLeavesNothing ==
    [][embedResult'.outcome = "ValueError" /\ calls' # calls
         => /\ heapImg' = heapImg
            /\ heapExif' = heapExif
            /\ stegos' = stegos
            /\ outImage' = outImage]_vars

\* a call that failed on a carrier that already holds the record, the stego
\* object and the output image of an earlier call
C14_Witness ==
    /\ embedResult.outcome = "ValueError"
    /\ Len(embedResult.data) > carrier.storage_capacity
    /\ Len(stegos) = 1
    /\ heapExif[carrier.exif].has
    /\ heapExif[carrier.exif].UserComment
         = FormatMetadata(stegos[1].payload, carrier.parameter)
    /\ Len(stegos[1].payload) > 0
    /\ outImage = to_file(stegos[1].steg_image, heapExif[carrier.exif].UserComment)

\* C15: watermarking mode embeds whole copies only. For every non-empty data
\* and either kind, the payload passed to embed_data is exactly k copies of
\* the data one after the other, k = floor(storage_capacity / len(data)): it
\* is no longer than storage_capacity, the unused remainder is smaller than
\* len(data) and there is no partial copy.
C15_WholeCopies ==
    args.watermark /\ Len(args.data) > 0 /\ calls > 0 =>
        LET payload == embedResult.data
            len == Len(args.data)
            k == carrier.storage_capacity \div len
        IN /\ EmbedCalled
           /\ Len(payload) = k * len
           /\ \A q \in 1..Len(payload) : payload[q] = args.data[((q - 1) % len) + 1]
           /\ Len(payload) <= carrier.storage_capacity
           /\ carrier.storage_capacity - Len(payload) < len
           /\ embedResult.outcome # "ValueError"

\* two copies embedded, one byte of capacity left over
C15_Witness ==
    /\ args.watermark
    /\ Len(args.data) = 2
    /\ args.data[1] # args.data[2]
    /\ carrier.storage_capacity = 5
    /\ embedResult.outcome = "ok"
    /\ Len(embedResult.data) = 4
    /\ outImage.written

\* the coefficient at intra-block (row k, col l) is eligible: its column is
\* at or after max(0, 8 - k - perceptibility) and its value is neither 0 nor 1
Eligible(ch, n, perceptibility) ==
    LET k == (n \div 8) % 8
        l == n % 8
        first == IF 8 - k - perceptibility > 0 THEN 8 - k - perceptibility ELSE 0
    IN l >= first /\ ch.cells[n + 1] # 0 /\ ch.cells[n + 1] # 1

EligibleSet(ch, perceptibility) ==
    {n \in 0..(Len(ch.cells) - 1) : Eligible(ch, n, perceptibility)}

\* the eligible positions of a DCT image, plane by plane in the order Y, Cr,
\* Cb and in scan order within a plane, as <<plane, cell>> pairs
EligibleOrder(image, perceptibility) ==
    LET at(i) == InOrder(EligibleSet(Planes(image)[i], perceptibility))
        tag(i) == [q \in 1..Len(at(i)) |-> <<i, at(i)[q]>>]
    IN tag(1) \o tag(2) \o tag(3)

\* block b of a plane holds only zeros
AllZeroBlock(ch, b) == \A n \in (64 * b)..(64 * b + 63) : ch.cells[n + 1] = 0

\* C20: DCT eligibility and capacity. A coefficient at intra-block (k, l) is
\* counted iff l >= max(0, 8 - k - perceptibility) and its value is neither 0
\* nor 1; storage_capacity is floor((eligible(Y) + eligible(Cr) +
\* eligible(Cb)) / 8); the capacity count, embed and extract select the same
\* positions; an all-zero block contributes 0 bits.
C20_DctEligibility ==
    kind = "jpeg" /\ carrier.image # 0 =>
        LET p == carrier.parameter
            order == EligibleOrder(SourceImage, p)
        IN /\ carrier.storage_capacity = Len(order) \div 8
           /\ \A i \in 1..3 :
                 LET ch == Planes(SourceImage)[i]
                 IN /\ compute_number_of_available_coefficients(ch, p)
                         = Cardinality(EligibleSet(ch, p))
                    /\ \A b \in 0..((Len(ch.cells) \div 64) - 1) :
                          AllZeroBlock(ch, b) =>
                              EligibleSet(ch, p) \cap ((64 * b)..(64 * b + 63)) = {}
           /\ embedResult.outcome = "ok" =>
                 /\ embedResult.written = 8 * Len(embedResult.data)
                 /\ embedResult.written <= Len(order)
                 /\ EligibleOrder(NewestStego, p) = order
                 /\ \A i \in 1..3, n \in 0..127 :
                       (n < Len(Planes(SourceImage)[i].cells)
                        /\ Planes(NewestStego)[i].cells[n + 1]
                             # Planes(SourceImage)[i].cells[n + 1])
                       => \E q \in 1..embedResult.written : order[q] = <<i, n>>
                 /\ \A q \in 1..embedResult.written :
                       Planes(NewestStego)[order[q][1]].cells[order[q][2] + 1] % 2
                         = frombytes(embedResult.data)[q]
           /\ ExtractedNewest /\ ex.outcome = "ok" =>
                 LET read == EligibleOrder(NewestStego, ex.parameter)
                 IN /\ ex.reads = Min(ex.data_size, Len(read))
                    /\ ex.data = tobytes([q \in 1..ex.reads |->
                                   Planes(NewestStego)[read[q][1]].cells[read[q][2] + 1] % 2])

\* a payload embedded into and read back from the chroma planes of a carrier
\* whose luma holds an all-zero block and 1s inside the column range
C20_Witness ==
    /\ kind = "jpeg"
    /\ ExtractedNewest
    /\ ex.outcome = "ok"
    /\ ex.reads = 8
    /\ Len(embedResult.data) = 1
    /\ AllZeroBlock(SourceImage.Y, 1)
    /\ \E n \in 0..63 : SourceImage.Y.cells[n + 1] = 1
    /\ NewestStego # SourceImage

\* the detector has run on the image under test
Detected == det.outcome # "none"
TestedImage == heapImg[1]

\* C16: when a plane tested by the detector has zero samples in scope (DCT:
\* every coefficient of the plane is 0 or 1) detection yields an explicit
\* inconclusive result for it; it does not run the chi-square computation on
\* an empty set and does not fail.
C16_EmptyPlaneInconclusive ==
    Detected =>
        /\ \A i \in 1..Len(det.planes) :
              det.planes[i].N = 0 => det.planes[i].test = "inconclusive"
        /\ (\E i \in 1..Len(det.planes) : det.planes[i].N = 0)
              => det.outcome \notin {"ValueError", "IndexError"}

\* colour channel k of a rows x cols x 3 array, over every pixel
Channel(image, k) ==
    [q \in 1..(image.shape[1] * image.shape[2]) |-> image.cells[(q - 1) * 3 + k + 1]]

\* the samples in scope of each plane that is to be tested
ScopePlanes ==
    IF kind = "jpeg"
    THEN LET in(ch) == SelectSeq(ch.cells, NotZeroOrOne)
         IN IF det.mode = "grayscale" THEN <<in(TestedImage.Y)>>
            ELSE <<in(TestedImage.Y), in(TestedImage.Cr), in(TestedImage.Cb)>>
    ELSE IF det.mode = "grayscale" THEN <<TestedImage.cells>>
         ELSE <<Channel(TestedImage, 0), Channel(TestedImage, 1), Channel(TestedImage, 2)>>

\* every plane in scope has samples and all their low-order bits are 0
ConstantLowBit ==
    \A i \in 1..Len(ScopePlanes) :
        /\ Len(ScopePlanes[i]) > 0
        /\ \A q \in 1..Len(ScopePlanes[i]) : ScopePlanes[i][q] % 2 = 0

\* C17: detector verdict on a constant low bit. For every carrier whose
\* in-scope low-order bits are all 0 the verdict is "stego suspected": the
\* p-value of at least one tested plane is below 0.05.
C17_ConstantLowBitSuspected ==
    Detected /\ ConstantLowBit =>
        /\ det.outcome = "detected"
        /\ \E i \in 1..Len(det.planes) : det.planes[i].test = "significant"

\* C18: in both detectors, for every tested plane with N samples in scope,
\* the expected frequency is [floor(N/2), ceil(N/2)]: the buckets sum to N
\* and on an odd N the extra unit is in the second bucket.
C18_ExpectedEvenSplit ==
    Detected =>
        \A i \in 1..Len(det.planes) :
            LET N == det.planes[i].N
                expected == det.planes[i].expected
            IN /\ expected = <<N \div 2, (N + 1) \div 2>>
               /\ expected[1] + expected[2] = N

\* C19: in colour mode the pixel detector tests each of the three colour
\* channels, and the observed frequency of a channel counts the low-order
\* bit of that channel's value at every pixel: its buckets sum to rows*cols.
C19_ColourChannelsTested ==
    kind = "png" /\ det.mode = "colour" /\ Detected =>
        /\ Len(det.planes) = 3
        /\ \E f \in [1..3 -> 0..2] :
              /\ \A i \in 1..3, j \in 1..3 : f[i] = f[j] => i = j
              /\ \A i \in 1..3 :
                    /\ det.planes[i].observed = Histogram(Channel(TestedImage, f[i]))
                    /\ det.planes[i].observed[1] + det.planes[i].observed[2]
                         = TestedImage.shape[1] * TestedImage.shape[2]

\* bit i (from 0) of a payload, the most significant bit of each byte first
PayloadBit(payload, i) == (payload[(i \div 8) + 1] \div (2 ^ (7 - (i % 8)))) % 2

\* the value of a coefficient with its low bit cleared, then OR the bit
ClearThenOr(value, bit) == 2 * ((value - (value % 2)) \div 2) + bit

\* C21: DCT bit placement. After embed_data(payload), for every i below
\* 8*len(payload), payload bit i (MSB first in each byte) is the low bit of
\* the i-th eligible coefficient in scan order (Y, Cr, Cb; block row, block
\* column, row, column), whose stego value is the source value with the low
\* bit cleared OR that bit; extract reads the positions in the same order.
C21_DctBitPlacement ==
    kind = "jpeg" /\ embedResult.outcome = "ok" =>
        LET payload == embedResult.data
            order == EligibleOrder(SourceImage, carrier.parameter)
            source(i) == Planes(SourceImage)[order[i + 1][1]].cells[order[i + 1][2] + 1]
            stego(i) == Planes(NewestStego)[order[i + 1][1]].cells[order[i + 1][2] + 1]
        IN /\ 8 * Len(payload) <= Len(order)
           /\ \A i \in 0..(8 * Len(payload) - 1) :
                 /\ stego(i) % 2 = PayloadBit(payload, i)
                 /\ stego(i) = ClearThenOr(source(i), PayloadBit(payload, i))
           /\ (ExtractedNewest /\ ex.outcome = "ok" /\ Len(payload) > 0
                 => /\ ex.reads = 8 * Len(payload)
                    /\ Len(ex.data) = Len(payload)
                    /\ \A i \in 0..(8 * Len(payload) - 1) :
                          PayloadBit(ex.data, i) = stego(i) % 2)

\* two bytes, the second one not a palindrome of bits, written across the
\* planes and read back
C21_Witness ==
    /\ kind = "jpeg"
    /\ ExtractedNewest
    /\ ex.outcome = "ok"
    /\ embedResult.data = <<90, 13>>
    /\ ex.data = <<90, 13>>
    /\ compute_number_of_available_coefficients(SourceImage.Y, carrier.parameter) < 16

\* the number made of payload bits [from, to) (those that exist), followed
\* by zero bits up to to - from bits
RECURSIVE TrailingBits(_, _, _)
TrailingBits(payload, from, to) ==
    IF from >= to THEN 0
    ELSE (IF from < 8 * Len(payload) THEN PayloadBit(payload, from) ELSE 0)
            * (2 ^ (to - from - 1))
         + TrailingBits(payload, from + 1, to)

\* C22: pixel packing. With n = number_of_least_significant_bits, the sample
\* at scan index q = (i*cols + j)*3 + k receives payload bits [q*n, (q+1)*n)
\* as its n trailing bits and its leading 8-n bits keep their source value;
\* only the final write may hold fewer than n payload bits, and it is filled
\* with zero bits on the right.
C22_PixelPacking ==
    kind = "png" /\ embedResult.outcome = "ok" =>
        LET payload == embedResult.data
            n == carrier.parameter
            rows == SourceImage.shape[1]
            cols == SourceImage.shape[2]
            channels == SourceImage.shape[3]
        IN \A i \in 0..(rows - 1), j \in 0..(cols - 1), k \in 0..2 :
              LET q == (i * cols + j) * 3 + k
                  cell == (i * cols + j) * channels + k + 1
                  source == SourceImage.cells[cell]
                  stego == NewestStego.cells[cell]
              IN q * n < 8 * Len(payload) =>
                    /\ stego \div (2 ^ n) = source \div (2 ^ n)
                    /\ stego % (2 ^ n) = TrailingBits(payload, q * n, (q + 1) * n)

\* one byte in 3-bit groups: the third sample holds two payload bits and one
\* zero bit
C22_Witness ==
    /\ kind = "png"
    /\ embedResult.outcome = "ok"
    /\ carrier.parameter = 3
    /\ embedResult.data = <<165>>
    /\ NewestStego.cells[3] % 8 = 2
    /\ SourceImage.cells[3] % 8 # 2

\* the capacity of the carrier's planes as they are now, under its parameter
\* as it is now: the eligible coefficients of Y, Cr, Cb (DCT), image.size
\* samples of n bits (pixel), in whole bytes
RecomputedCapacity ==
    IF kind = "jpeg"
    THEN (Cardinality(EligibleSet(SourceImage.Y, carrier.parameter))
          + Cardinality(EligibleSet(SourceImage.Cr, carrier.parameter))
          + Cardinality(EligibleSet(SourceImage.Cb, carrier.parameter))) \div 8
    ELSE (Len(SourceImage.cells) * carrier.parameter) \div 8

\* C23: the cached capacity stays valid. After any sequence of embed_data
\* calls, successful or failed, on one carrier object of either kind, its
\* storage_capacity equals the capacity recomputed from the carrier's current
\* planes and current parameter.
C23_CachedCapacityValid == carrier.storage_capacity = RecomputedCapacity

\* a carrier with a parameter other than the default, after a call that
\* returned and a call that failed
C23_Witness ==
    /\ calls = 2
    /\ embedResult.outcome = "ValueError"
    /\ Len(stegos) = 1
    /\ carrier.parameter # from_file_parameter(kind, 0)
    /\ carrier.storage_capacity > 0
    /\ carrier.storage_capacity
         # compute_storage_capacity(kind, SourceImage, from_file_parameter(kind, 0))

\* a value and the value a bit mask made of it: the new value is not 0 or 1,
\* is at most 1 away, has the same sign, and int(value) % 2 reads the bit
MaskKeepsEligible(old, new, bit) ==
    /\ new # 0 /\ new # 1
    /\ new - old \in {-1, 0, 1}
    /\ (old < 0 <=> new < 0)
    /\ new % 2 = bit

\* C24: DCT embedding preserves eligibility. Writing a payload bit (value &=
\* -2 or value |= 1) into a coefficient that is not 0 or 1, positive or
\* negative, never yields 0 or 1, changes the value by at most 1 and keeps
\* its sign, and the bit extract reads (int(value) % 2) is the bit written; so
\* the eligible positions of the stego planes are those of the source planes.
C24_EmbedKeepsEligibility ==
    /\ \A value \in ((0 - MaxCoef)..MaxCoef) \ {0, 1}, bit \in {0, 1} :
          MaskKeepsEligible(value, ApplyBitmask(value, bit), bit)
    /\ kind = "jpeg" /\ embedResult.outcome = "ok" =>
          LET order == EligibleOrder(SourceImage, carrier.parameter)
          IN /\ \A q \in 1..embedResult.written :
                   MaskKeepsEligible(
                       Planes(SourceImage)[order[q][1]].cells[order[q][2] + 1],
                       Planes(NewestStego)[order[q][1]].cells[order[q][2] + 1],
                       frombytes(embedResult.data)[q])
             /\ \A i \in 1..3 :
                   EligibleSet(Planes(NewestStego)[i], carrier.parameter)
                     = EligibleSet(Planes(SourceImage)[i], carrier.parameter)

\* a coefficient -1 that took the bit 0 and one -2 that took the bit 1
C24_Witness ==
    /\ kind = "jpeg"
    /\ embedResult.outcome = "ok"
    /\ LET order == EligibleOrder(SourceImage, carrier.parameter)
           source(q) == Planes(SourceImage)[order[q][1]].cells[order[q][2] + 1]
           stego(q) == Planes(NewestStego)[order[q][1]].cells[order[q][2] + 1]
       IN /\ \E q \in 1..embedResult.written : source(q) = -1 /\ stego(q) = -2
          /\ \E q \in 1..embedResult.written : source(q) = -2 /\ stego(q) = -1

\* C25: every record embed_data writes is one extract accepts. For both
\* kinds, every carrier made by from_file (any requested parameter) and every
\* payload for which embed_data returns a stego object,
\* extract_parameters_from_metadata on the written record succeeds and returns
\* (len(payload) * 8, the carrier's parameter).
C25_WrittenRecordAccepted ==
    embedResult.outcome = "ok" =>
        LET parsed == extract_parameters_from_metadata(
                          ExifGet(RecordOf(Len(stegos))), 1, ParamEnd(kind))
        IN /\ ~parsed.raised
           /\ parsed.data_size = 8 * Len(embedResult.data)
           /\ parsed.custom_parameter = carrier.parameter

====
